---- MODULE Spec2Model ----
(***************************************************************************)
(* Model of the seeded maze generator: the Park-Miller PRNG (prng.ts) and  *)
(* the recursive backtracker of class Maze.  The caller constructs         *)
(* NumMazes mazes one after the other from the same (size, seed) and then  *)
(* queries cells of the finished mazes with getCell.  The recursion of     *)
(* Maze.generate is an explicit call stack; one action is one iteration of *)
(* one of the two loops of the source (the shuffle loop of                 *)
(* randomDirections, the direction loop of generate).                      *)
(***************************************************************************)
EXTENDS Integers, Sequences, FiniteSets, TLC

\* ---------------------------------------------------------------- bounds
MaxSize == 4
MaxNonPositive == 2
NumMazes == 2

Sizes == (0 - MaxNonPositive)..MaxSize

\* Integer seeds: ordinary ones, zero, the multiples of the modulus, and the
\* two ends of the negative remainder range.
Seeds == {1, 42, 0, 0 - 1, 2147483646, 2147483647, 0 - 2147483646, 0 - 2147483647}

\* ------------------------------------------------------------------ PRNG
Modulus == 2147483647
Multiplier == 16807
SeedCorrection == 2147483646
FloatDivisor == 2147483646

\* JavaScript's % : the remainder takes the sign of the dividend.
JsRem(a, m) == IF a >= 0 THEN a % m ELSE 0 - ((0 - a) % m)

\* PRNG.next: seed * 16807 % 2147483647.  The product does not fit the
\* 32-bit integers of TLC, so it is computed by Schrage's decomposition
\* (Modulus = Multiplier * q + r), which yields the same value for every
\* 0 <= s < Modulus.
PRNGNext(s) ==
  LET q == Modulus \div Multiplier
      r == Modulus % Multiplier
      t == Multiplier * (s % q) - r * (s \div q)
  IN  IF t >= 0 THEN t ELSE t + Modulus

\* PRNG.nextFloat returns (next() - 1) / 2147483646; the model keeps the
\* numerator, the denominator being FloatDivisor.
NextFloatNum(v) == v - 1

\* Smallest numerator k with k / FloatDivisor * len >= j, for 0 <= j <= len.
Threshold(j, len) ==
  LET d == FloatDivisor \div len
      m == FloatDivisor % len
  IN  j * d + ((j * m + len - 1) \div len)

\* Math.floor(nextFloat * len) for the float k / FloatDivisor.
FloorScaled(k, len) ==
  IF k >= 0
    THEN Cardinality({j \in 1..len : Threshold(j, len) <= k})
    ELSE 0 - Cardinality({j \in 0..(len - 1) : (j * (FloatDivisor \div len)
                            + ((j * (FloatDivisor % len)) \div len)) < 0 - k})

\* ------------------------------------------------------------ directions
North == 0
East == 1
South == 2
West == 3
Undefined == 0 - 1

\* Array.prototype.splice(start, 1) on a list: the normalised start, the list
\* that remains, and element [0] of the removed items (Undefined when nothing
\* was removed).
SpliceStart(list, start) ==
  IF start < 0
    THEN (IF Len(list) + start > 0 THEN Len(list) + start ELSE 0)
    ELSE (IF start < Len(list) THEN start ELSE Len(list))

SpliceRest(list, start) ==
  LET p == SpliceStart(list, start)
  IN  [i \in 1..(IF p < Len(list) THEN Len(list) - 1 ELSE Len(list)) |->
         IF i <= p THEN list[i] ELSE list[i + 1]]

\* Variant of SpliceTaken: the element is read from the list after the
\* removal instead of from the removed items.
SpliceTaken_afterRemoval(list, start) ==
  LET p == SpliceStart(list, start)
      rest == SpliceRest(list, start)
  IN  IF p < Len(rest) THEN rest[p + 1] ELSE Undefined

SpliceTaken(list, start) ==
  LET p == SpliceStart(list, start)
  IN  IF p < Len(list) THEN list[p + 1] ELSE Undefined

\* ----------------------------------------------------------------- state
VARIABLES
  size,     \* constructor argument size (this.size of every maze)
  seed,     \* constructor argument seed
  cells,    \* cells[o]: the cell array of maze o, indexed from 0
  prng,     \* prng[o]: the PRNG state (PRNG.seed) of maze o
  stack,    \* call stack of Maze.generate, innermost frame last
  pc,       \* "idle" (caller runs), "running" (inside a constructor), "threw"
  visits,   \* visits[o]: the positions generate was entered with, in order
  draws,    \* draws[o]: the draws of randomDirections, in order
  got       \* the last getCell call of the caller and what it returned

vars == <<size, seed, cells, prng, stack, pc, visits, draws, got>>

WalledCell == [n |-> TRUE, e |-> TRUE, s |-> TRUE, w |-> TRUE, visited |-> FALSE]

AllDirections == <<North, East, South, West>>

NoCall == [o |-> 0, x |-> 0, y |-> 0, ref |-> Undefined]

Init ==
  /\ size \in Sizes
  /\ seed \in Seeds
  /\ cells = <<>>
  /\ prng = <<>>
  /\ stack = <<>>
  /\ pc = "idle"
  /\ visits = <<>>
  /\ draws = <<>>
  /\ got = NoCall

\* Variant of PRNGNew: the generator state is shared by all mazes and seeded
\* only once, so a later maze continues the sequence of the one before.
PRNGNew_shared(s) ==
  IF prng # <<>>
    THEN prng[Len(prng)]
    ELSE LET r == JsRem(s, Modulus)
         IN  IF r <= 0 THEN r + SeedCorrection ELSE r

\* PRNG.constructor: this.seed = seed % 2147483647; if (<= 0) += 2147483646
PRNGNew(s) ==
  LET r == JsRem(s, Modulus)
  IN  IF r <= 0 THEN r + SeedCorrection ELSE r

\* The maze under construction (or the last one constructed).
obj == Len(cells)

\* ------------------------------------------------------------ Maze helpers
\* Variants of InBounds: the last row is cut off; the column one past the
\* last is let in.
InBounds_shortRows(x, y) == x >= 0 /\ y >= 0 /\ x < size /\ y < size - 1

InBounds_wide(x, y) == x >= 0 /\ y >= 0 /\ x <= size /\ y < size

\* Maze.inBounds
InBounds(x, y) == x >= 0 /\ y >= 0 /\ x < size /\ y < size

\* Maze.getCell: this.cells[y * this.size + x].  A cell is returned by
\* reference, which is its position in the array; an index outside the array
\* yields undefined.
GetCell(c, x, y) ==
  LET i == y * size + x
  IN  IF i \in DOMAIN c THEN i ELSE Undefined

\* Object.assign(target, source)
Assign(target, source) ==
  [f \in (DOMAIN target) \cup (DOMAIN source) |->
     IF f \in DOMAIN source THEN source[f] ELSE target[f]]

\* Maze.setCell; Object.assign throws a TypeError on an undefined target.
SetCellThrows(c, x, y) == GetCell(c, x, y) = Undefined

SetCell(c, x, y, newValues) ==
  [c EXCEPT ![y * size + x] = Assign(@, newValues)]

\* Maze.isVisited; reading .visited of undefined throws a TypeError.
IsVisitedThrows(c, x, y) == InBounds(x, y) /\ GetCell(c, x, y) = Undefined

IsVisited(c, x, y) ==
  IF ~InBounds(x, y) THEN TRUE ELSE c[GetCell(c, x, y)].visited

\* The frame of a fresh call generate(x, y), about to run randomDirections.
Frame(x, y) ==
  [x |-> x, y |-> y, phase |-> "shuffle",
   work |-> AllDirections, shuffled |-> <<>>, directions |-> <<>>]

Top == stack[Len(stack)]

ReplaceTop(f) == [stack EXCEPT ![Len(stack)] = f]

\* An exception leaves the constructor: the call stack unwinds.
Throw ==
  /\ pc' = "threw"
  /\ stack' = <<>>

\* ---------------------------------------------------------------- actions
\* new Maze(size, seed): lines 25-41, up to the first statement of
\* generate(0, 0).
NewMaze ==
  /\ pc = "idle"
  /\ obj < NumMazes
  /\ LET c == [i \in 0..(size * size - 1) |-> WalledCell]
     IN  /\ prng' = Append(prng, PRNGNew(seed))
         /\ visits' = Append(visits, << <<0, 0>> >>)
         /\ draws' = Append(draws, <<>>)
         /\ IF SetCellThrows(c, 0, 0)
              THEN /\ cells' = Append(cells, c)
                   /\ Throw
              ELSE /\ cells' = Append(cells, SetCell(c, 0, 0, [visited |-> TRUE]))
                   /\ stack' = <<Frame(0, 0)>>
                   /\ pc' = "running"
  /\ UNCHANGED <<size, seed, got>>

\* One iteration of the shuffle loop of randomDirections; after the last one
\* the shuffled list becomes the directions of generate.
Shuffle ==
  /\ pc = "running"
  /\ Top.phase = "shuffle"
  /\ LET f == Top
         v == PRNGNext(prng[obj])
         randomIndex == FloorScaled(NextFloatNum(v), Len(f.work))
         rest == SpliceRest(f.work, randomIndex)
         out == Append(f.shuffled, SpliceTaken(f.work, randomIndex))
     IN  /\ prng' = [prng EXCEPT ![obj] = v]
         /\ draws' = [draws EXCEPT ![obj] =
                        Append(@, [value |-> v, index |-> randomIndex,
                                   remaining |-> Len(f.work)])]
         /\ stack' = ReplaceTop(
              IF rest = <<>>
                THEN [f EXCEPT !.phase = "loop", !.work = rest,
                               !.shuffled = out, !.directions = out]
                ELSE [f EXCEPT !.work = rest, !.shuffled = out])
  /\ UNCHANGED <<size, seed, cells, pc, visits, got>>

\* A taken branch of the direction loop: open the wall on both sides and
\* call generate on the neighbour (nx, ny).
Move(nx, ny, mine, theirs) ==
  LET f == Top
      c == cells[obj]
  IN  IF IsVisitedThrows(c, nx, ny)
        THEN /\ Throw
             /\ UNCHANGED <<cells, visits>>
        ELSE /\ ~IsVisited(c, nx, ny)
             /\ cells' = [cells EXCEPT ![obj] =
                  SetCell(SetCell(SetCell(c, f.x, f.y, mine), nx, ny, theirs),
                          nx, ny, [visited |-> TRUE])]
             /\ stack' = Append(ReplaceTop([f EXCEPT !.directions = Tail(@)]),
                                Frame(nx, ny))
             /\ visits' = [visits EXCEPT ![obj] = Append(@, <<nx, ny>>)]
             /\ pc' = pc

InLoop == pc = "running" /\ Top.phase = "loop" /\ Top.directions # <<>>

\* Variant of GoNorth: the neighbour's n flag is cleared instead of its s flag.
GoNorth_sameFlag ==
  /\ InLoop
  /\ Head(Top.directions) = North
  /\ Move(Top.x, Top.y - 1, [n |-> FALSE], [n |-> FALSE])
  /\ UNCHANGED <<size, seed, prng, draws, got>>

GoNorth ==
  /\ InLoop
  /\ Head(Top.directions) = North
  /\ Move(Top.x, Top.y - 1, [n |-> FALSE], [s |-> FALSE])
  /\ UNCHANGED <<size, seed, prng, draws, got>>

GoEast ==
  /\ InLoop
  /\ Head(Top.directions) = East
  /\ Move(Top.x + 1, Top.y, [e |-> FALSE], [w |-> FALSE])
  /\ UNCHANGED <<size, seed, prng, draws, got>>

GoSouth ==
  /\ InLoop
  /\ Head(Top.directions) = South
  /\ Move(Top.x, Top.y + 1, [s |-> FALSE], [n |-> FALSE])
  /\ UNCHANGED <<size, seed, prng, draws, got>>

GoWest ==
  /\ InLoop
  /\ Head(Top.directions) = West
  /\ Move(Top.x - 1, Top.y, [w |-> FALSE], [e |-> FALSE])
  /\ UNCHANGED <<size, seed, prng, draws, got>>

\* The neighbour the direction d leads to from (x, y).
NeighbourX(d, x) == IF d = East THEN x + 1 ELSE IF d = West THEN x - 1 ELSE x
NeighbourY(d, y) == IF d = South THEN y + 1 ELSE IF d = North THEN y - 1 ELSE y

\* Variant of Skip: the wall to an in-bounds neighbour is opened before the
\* visited check, so it is opened even when the branch is not taken.
Skip_opensWall ==
  /\ InLoop
  /\ LET f == Top
         d == Head(f.directions)
         nx == NeighbourX(d, f.x)
         ny == NeighbourY(d, f.y)
         c == cells[obj]
         mine == CASE d = North -> [n |-> FALSE] [] d = East -> [e |-> FALSE]
                   [] d = South -> [s |-> FALSE] [] OTHER -> [w |-> FALSE]
         theirs == CASE d = North -> [s |-> FALSE] [] d = East -> [w |-> FALSE]
                     [] d = South -> [n |-> FALSE] [] OTHER -> [e |-> FALSE]
     IN  /\ IF d \in {North, East, South, West}
              THEN ~IsVisitedThrows(c, nx, ny) /\ IsVisited(c, nx, ny)
              ELSE TRUE
         /\ cells' = IF d \in {North, East, South, West} /\ InBounds(nx, ny)
                       THEN [cells EXCEPT ![obj] =
                               SetCell(SetCell(c, f.x, f.y, mine), nx, ny, theirs)]
                       ELSE cells
         /\ stack' = ReplaceTop([f EXCEPT !.directions = Tail(@)])
  /\ UNCHANGED <<size, seed, prng, pc, visits, draws, got>>

\* An iteration of the direction loop in which no branch is taken: the
\* neighbour is out of bounds or visited, or the direction is none of the four.
Skip ==
  /\ InLoop
  /\ LET f == Top
         d == Head(f.directions)
         nx == NeighbourX(d, f.x)
         ny == NeighbourY(d, f.y)
     IN  /\ IF d \in {North, East, South, West}
              THEN ~IsVisitedThrows(cells[obj], nx, ny) /\ IsVisited(cells[obj], nx, ny)
              ELSE TRUE
         /\ stack' = ReplaceTop([f EXCEPT !.directions = Tail(@)])
  /\ UNCHANGED <<size, seed, cells, prng, pc, visits, draws, got>>

\* The direction loop is over: generate returns; when the outermost call
\* returns, so does the constructor.
Return ==
  /\ pc = "running"
  /\ Top.phase = "loop"
  /\ Top.directions = <<>>
  /\ stack' = SubSeq(stack, 1, Len(stack) - 1)
  /\ pc' = IF Len(stack) = 1 THEN "idle" ELSE "running"
  /\ UNCHANGED <<size, seed, cells, prng, visits, draws, got>>

\* Maze o has been constructed: its constructor returned.
Constructed(o) == o \in 1..obj /\ (o < obj \/ pc = "idle")

QueryCoords == (0 - 1)..(IF size > 0 THEN size ELSE 1)

\* The caller, having constructed its mazes, calls getCell(x, y) on one.
GetCellCall ==
  /\ pc = "idle"
  /\ obj = NumMazes
  /\ \E o \in 1..obj, x \in QueryCoords, y \in QueryCoords :
       got' = [o |-> o, x |-> x, y |-> y, ref |-> GetCell(cells[o], x, y)]
  /\ UNCHANGED <<size, seed, cells, prng, stack, pc, visits, draws>>

Generate == Shuffle \/ GoNorth \/ GoEast \/ GoSouth \/ GoWest \/ Skip \/ Return

Next == NewMaze \/ Generate \/ GetCellCall

Spec == Init /\ [][Next]_vars

\* The constructor is synchronous: once entered it runs to completion.
FairSpec == Spec /\ WF_vars(Generate)

\* ------------------------------------------------------------------ diagram
Bit(b) == IF b THEN 1 ELSE 0

\* The key built in Maze.diagram from the flags in the order n, e, s, w.
CharKey(cell) == <<Bit(cell.n), Bit(cell.e), Bit(cell.s), Bit(cell.w)>>

\* cellAtlas: the glyph of each key, as its Unicode code point.
CellAtlas(key) ==
  CASE key = <<0, 0, 0, 0>> -> 32
    [] key = <<0, 0, 0, 1>> -> 9144
    [] key = <<0, 0, 1, 0>> -> 9149
    [] key = <<0, 0, 1, 1>> -> 9492
    [] key = <<0, 1, 0, 0>> -> 9145
    [] key = <<0, 1, 0, 1>> -> 9553
    [] key = <<0, 1, 1, 0>> -> 9496
    [] key = <<0, 1, 1, 1>> -> 12048
    [] key = <<1, 0, 0, 0>> -> 9146
    [] key = <<1, 0, 0, 1>> -> 9484
    [] key = <<1, 0, 1, 0>> -> 9552
    [] key = <<1, 0, 1, 1>> -> 10957
    [] key = <<1, 1, 0, 0>> -> 9488
    [] key = <<1, 1, 0, 1>> -> 12044
    [] key = <<1, 1, 1, 0>> -> 10958
    [] key = <<1, 1, 1, 1>> -> 9608

LineFeed == 10

\* The inner loop of Maze.diagram: the glyphs of row y.
DiagramRow(c, y) == [i \in 1..size |-> CellAtlas(CharKey(c[GetCell(c, i - 1, y)]))]

\* Maze.diagram, from row y on: rows joined by a line feed, none after the last.
RECURSIVE DiagramFrom(_, _)
DiagramFrom(c, y) ==
  IF y >= size
    THEN <<>>
    ELSE DiagramRow(c, y) \o (IF y < size - 1 THEN <<LineFeed>> ELSE <<>>)
           \o DiagramFrom(c, y + 1)

Diagram(c) == DiagramFrom(c, 0)

\* ------------------------------------------------------- graph of passages
Positions == (0..(size - 1)) \X (0..(size - 1))

CellAt(c, p) == c[p[2] * size + p[1]]

\* There is an open passage from a to the adjacent cell b: the wall flags the
\* two cells turn to each other are both false.
Passage(c, a, b) ==
  \/ b[1] = a[1] + 1 /\ b[2] = a[2] /\ ~CellAt(c, a).e /\ ~CellAt(c, b).w
  \/ b[1] = a[1] - 1 /\ b[2] = a[2] /\ ~CellAt(c, a).w /\ ~CellAt(c, b).e
  \/ b[1] = a[1] /\ b[2] = a[2] + 1 /\ ~CellAt(c, a).s /\ ~CellAt(c, b).n
  \/ b[1] = a[1] /\ b[2] = a[2] - 1 /\ ~CellAt(c, a).n /\ ~CellAt(c, b).s

\* The cells of the grid next to a.
Adjacent(a) ==
  {<<a[1] + 1, a[2]>>, <<a[1] - 1, a[2]>>, <<a[1], a[2] + 1>>, <<a[1], a[2] - 1>>}
    \cap Positions

\* Flood fill over open passages: the cells reached so far and the ones
\* reached last.
RECURSIVE FloodFrom(_, _, _)
FloodFrom(c, seen, frontier) ==
  IF frontier = {}
    THEN seen
    ELSE LET new == {b \in Positions \ seen :
                       \E a \in frontier : b \in Adjacent(a) /\ Passage(c, a, b)}
         IN  FloodFrom(c, seen \cup new, new)

Flood(c, start) == FloodFrom(c, start, start)

\* The adjacent pairs (a, its east or south neighbour) of the grid.
AdjacentPairs ==
  {<<a, <<a[1] + 1, a[2]>> >> : a \in (0..(size - 2)) \X (0..(size - 1))}
    \cup {<<a, <<a[1], a[2] + 1>> >> : a \in (0..(size - 1)) \X (0..(size - 2))}

\* The adjacent pairs with an open passage.
OpenPassages(c) == {ab \in AdjacentPairs : Passage(c, ab[1], ab[2])}

\* ------------------------------------------------------------------ claims
\* C1: for size >= 1, once the constructor has returned, every cell of the
\* grid is reachable from (0,0) through open passages.
C1_Connected ==
  \A o \in 1..obj :
    (Constructed(o) /\ size >= 1) => Flood(cells[o], {<<0, 0>>}) = Positions

C1_Witness ==
  \E o \in 1..obj :
    /\ Constructed(o)
    /\ size >= 2
    /\ <<size - 1, size - 1>> \in Flood(cells[o], {<<0, 0>>})

\* C2: for size >= 1, once the constructor has returned, there are exactly
\* size*size - 1 open passages, and with all cells connected the passage
\* graph is a tree (no cycle).
C2_SpanningTree ==
  \A o \in 1..obj :
    (Constructed(o) /\ size >= 1) =>
      /\ Cardinality(OpenPassages(cells[o])) = size * size - 1
      /\ Cardinality(Flood(cells[o], {<<0, 0>>})) = size * size

C2_Witness ==
  \E o \in 1..obj :
    /\ Constructed(o)
    /\ size >= 2
    /\ Cardinality(OpenPassages(cells[o])) >= 3

\* C3: in the final grid, adjacent cells agree on their shared wall:
\* A.e = B.w for horizontal neighbours, A.s = B.n for vertical ones.
C3_WallSymmetry ==
  \A o \in 1..obj :
    (Constructed(o) /\ size >= 1) =>
      \A a \in Positions :
        /\ a[1] + 1 < size =>
             CellAt(cells[o], a).e = CellAt(cells[o], <<a[1] + 1, a[2]>>).w
        /\ a[2] + 1 < size =>
             CellAt(cells[o], a).s = CellAt(cells[o], <<a[1], a[2] + 1>>).n

C3_Witness ==
  \E o \in 1..obj :
    /\ Constructed(o)
    /\ size >= 2
    /\ \E a \in Positions :
         /\ a[2] + 1 < size
         /\ ~CellAt(cells[o], a).s
         /\ ~CellAt(cells[o], <<a[1], a[2] + 1>>).n
    /\ \E a \in Positions :
         /\ a[1] + 1 < size
         /\ CellAt(cells[o], a).e
         /\ CellAt(cells[o], <<a[1] + 1, a[2]>>).w

\* C4: for size >= 1, at every moment of generation and after it, every wall
\* flag facing outside the grid is true.
C4_BoundaryWalls ==
  \A o \in 1..obj :
    size >= 1 =>
      \A a \in Positions :
        /\ a[2] = 0 => CellAt(cells[o], a).n
        /\ a[2] = size - 1 => CellAt(cells[o], a).s
        /\ a[1] = 0 => CellAt(cells[o], a).w
        /\ a[1] = size - 1 => CellAt(cells[o], a).e

C4_Witness ==
  \E o \in 1..obj :
    /\ Constructed(o)
    /\ size >= 2
    /\ ~CellAt(cells[o], <<size - 1, size - 1>>).n
    /\ CellAt(cells[o], <<size - 1, size - 1>>).e
    /\ CellAt(cells[o], <<size - 1, size - 1>>).s

\* C5: two constructions from the same (size, seed) make the same PRNG draws
\* and the same cell visits and end with the same grid and the same diagram.
C5_Deterministic ==
  \A o1 \in 1..obj, o2 \in 1..obj :
    (Constructed(o1) /\ Constructed(o2)) =>
      /\ draws[o1] = draws[o2]
      /\ visits[o1] = visits[o2]
      /\ cells[o1] = cells[o2]
      /\ size >= 1 => Diagram(cells[o1]) = Diagram(cells[o2])

C5_Witness ==
  /\ Constructed(1)
  /\ Constructed(2)
  /\ size >= 2
  /\ Len(draws[2]) = 4 * size * size
  /\ Len(Diagram(cells[2])) = size * size + size - 1

\* C6: the PRNG state lies in [1, 2147483646] after construction and after
\* every draw, for every integer seed.
C6_StateInRange ==
  size >= 1 => \A o \in 1..obj : prng[o] >= 1 /\ prng[o] <= Modulus - 1

\* C7: constructing a maze with a non-positive size fails; no maze object is
\* ever returned.
C7_NonPositiveSizeFails ==
  size <= 0 => \A o \in 1..obj : ~Constructed(o)

\* C8: for size >= 1, getCell(x, y) returns the cell at (x, y) when the
\* position is in bounds and never returns a cell when it is not (the claim
\* asks for a failure there; returning no cell is the least it asks for).
C8_GetCellContract ==
  (got.o # 0 /\ size >= 1) =>
    IF InBounds(got.x, got.y)
      THEN got.ref = got.y * size + got.x
      ELSE got.ref = Undefined

\* C9: every index drawn in randomDirections satisfies 0 <= index < remaining,
\* and the shuffled list holds each of the four directions exactly once.
C9_IndexInRange ==
  size >= 1 =>
    /\ \A o \in 1..obj : \A i \in 1..Len(draws[o]) :
         draws[o][i].index >= 0 /\ draws[o][i].index < draws[o][i].remaining
    /\ \A i \in 1..Len(stack) :
         stack[i].phase = "loop" =>
           /\ Len(stack[i].shuffled) = 4
           /\ {stack[i].shuffled[j] : j \in 1..4} = {North, East, South, West}

\* C10: for size >= 1 the carve terminates, generate is entered at most once
\* for a position and only for positions of the grid, and when the constructor
\* returns it was entered for all size*size cells and all are visited.
C10_VisitsOnce ==
  \A o \in 1..obj :
    size >= 1 =>
      /\ \A i \in 1..Len(visits[o]) : visits[o][i] \in Positions
      /\ \A i, j \in 1..Len(visits[o]) : visits[o][i] = visits[o][j] => i = j
      /\ Constructed(o) =>
           /\ Len(visits[o]) = size * size
           /\ \A a \in Positions : CellAt(cells[o], a).visited

C10_Terminates ==
  /\ []C10_VisitsOnce
  /\ (pc = "running" /\ size >= 1) ~> (pc = "idle")

C10_Witness ==
  \E o \in 1..obj :
    /\ Constructed(o)
    /\ size >= 2
    /\ Len(visits[o]) = size * size
    /\ visits[o][1] = <<0, 0>>

====
